---- MODULE Spec2Model ----
(***************************************************************************)
(* Model of the dashboard page component Home() of                         *)
(* frontend/src/app/page.tsx: its React state, its event handlers, its two *)
(* mount effects and the continuations of its asynchronous fetches.        *)
(*                                                                         *)
(* Every await of a fetch is a suspension point: the handler's first half  *)
(* and the continuation that runs when the response arrives are separate   *)
(* actions.  A continuation runs inside the closure of the render in which *)
(* its handler was created, so a request in flight carries the values its  *)
(* continuation closes over.                                               *)
(***************************************************************************)
EXTENDS Integers, Sequences, FiniteSets, TLC

\* ------------------------------------------------------------------ bounds
MaxLen == 1          \* longest text typed into an input
MaxJgReq == 4        \* job-groups requests issued in one run
MaxModalReq == 2     \* group-detail requests issued in one run

\* ------------------------------------------------------ values of the model
Chars == {" ", "a"}
GroupIds == {"g1", "g2"}          \* job_group_id values the backend holds
CountryList == {"PH"}             \* body of /api/countries
StatsBodies == {"s0", "s1"}       \* bodies of /api/stats
EmbeddingsValues == {-1, 0, 2}    \* embeddings_updated; -1 when the body has none
NoParams == [none |-> TRUE]       \* tag of the initial, never fetched list
Null == "<null>"                  \* null of a string | null state or JSON field
NullText == <<"<null>">>          \* null in place of a typed text
NoResult == [none |-> TRUE]       \* null of the SyncResponse | null state
Absent == -1                      \* an optional number missing from a body
NetworkMessage == "Failed to fetch"   \* message of the TypeError fetch rejects with

RECURSIVE StringsUpTo(_)
StringsUpTo(n) ==
  IF n = 0 THEN {<<>>}
  ELSE LET shorter == StringsUpTo(n - 1)
       IN  shorter \cup {Append(s, c) : s \in {t \in shorter : Len(t) = n - 1}, c \in Chars}

Strings == StringsUpTo(MaxLen)

\* String.prototype.trim(): strips leading and trailing white space
RECURSIVE TrimStart(_)
TrimStart(s) == IF s # <<>> /\ Head(s) = " " THEN TrimStart(Tail(s)) ELSE s

RECURSIVE TrimEnd(_)
TrimEnd(s) ==
  IF s # <<>> /\ s[Len(s)] = " " THEN TrimEnd(SubSeq(s, 1, Len(s) - 1)) ELSE s

Trim(s) == TrimEnd(TrimStart(s))

VARIABLES
  \* sync form
  jobGroupId, status, loading, result,
  \* job groups
  jobGroups, jobGroupsLoading, jobGroupsError,
  \* stats
  stats, statsLoading,
  \* filter and sort
  statusFilter, sortBy, sortOrder, searchQuery,
  \* reindex
  secretCode, reindexJobGroupId, reindexLoading,
  \* country dropdown
  countries, selectedCountry,
  \* modal
  modalOpen, modalJobs, modalGroupId, modalLoading,
  \* runtime: effects, requests in flight, notifier
  mounted,        \* the mount effects have run
  jgNet,          \* job-groups requests awaiting a response
  jgSeq,          \* number of job-groups requests issued
  jgLast,         \* history: the job-groups request issued last
  statsNet,       \* number of stats requests awaiting a response
  countriesNet,   \* number of countries requests awaiting a response
  modalNet,       \* group-detail requests awaiting a response
  modalSeq,       \* number of group-detail requests issued
  syncNet,        \* sync requests awaiting a response, with their closure
  reindexNet,     \* reindex requests awaiting a response, with their closure
  notified,       \* toasts emitted by the last step
  ev              \* the last step: handler or continuation, and its outcome

formVars == <<jobGroupId, status, loading, result, selectedCountry>>
jgVars == <<jobGroups, jobGroupsLoading, jobGroupsError>>
statsVars == <<stats, statsLoading>>
filterVars == <<statusFilter, sortBy, sortOrder, searchQuery>>
reindexVars == <<secretCode, reindexJobGroupId, reindexLoading>>
modalVars == <<modalOpen, modalJobs, modalGroupId, modalLoading>>
netVars == <<jgNet, jgSeq, jgLast, statsNet, countriesNet, modalNet, modalSeq, syncNet, reindexNet>>

vars == <<formVars, jgVars, statsVars, filterVars, reindexVars, countries,
          modalVars, mounted, netVars, notified, ev>>

\* ------------------------------------------------------------ the notifier
ToastError(msg) == [severity |-> "error", message |-> msg]
ToastSuccess(msg) == [severity |-> "success", message |-> msg]

\* a query that carries every search text that is not empty, blank or not
JobGroupsParamsUntrimmedTest(sf, sb, so, sq) ==
  LET withStatus == sf # "all"
      withSearch == sq # <<>>
  IN  IF withStatus /\ withSearch
        THEN [status |-> sf, sort_by |-> sb, sort_order |-> so, search |-> Trim(sq)]
      ELSE IF withStatus
        THEN [status |-> sf, sort_by |-> sb, sort_order |-> so]
      ELSE IF withSearch
        THEN [sort_by |-> sb, sort_order |-> so, search |-> Trim(sq)]
      ELSE [sort_by |-> sb, sort_order |-> so]

\* ---------------------------------------------------- query of a list read
\* new URLSearchParams() with the appends of fetchJobGroups: a record whose
\* fields are the parameters present in the query string
JobGroupsParams(sf, sb, so, sq) ==
  LET withStatus == sf # "all"
      withSearch == Trim(sq) # <<>>
  IN  IF withStatus /\ withSearch
        THEN [status |-> sf, sort_by |-> sb, sort_order |-> so, search |-> Trim(sq)]
      ELSE IF withStatus
        THEN [status |-> sf, sort_by |-> sb, sort_order |-> so]
      ELSE IF withSearch
        THEN [sort_by |-> sb, sort_order |-> so, search |-> Trim(sq)]
      ELSE [sort_by |-> sb, sort_order |-> so]

\* the values of one render that the functions created in it close over
Closure ==
  [statusFilter |-> statusFilter, sortBy |-> sortBy, sortOrder |-> sortOrder,
   searchQuery |-> searchQuery, status |-> status, result |-> result,
   secretCode |-> secretCode, reindexJobGroupId |-> reindexJobGroupId]

\* the request fetchJobGroups() of closure c issues when n requests were issued
JobGroupsRequest(c, n) ==
  [seq |-> n + 1,
   params |-> JobGroupsParams(c.statusFilter, c.sortBy, c.sortOrder, c.searchQuery)]

\* body of GET /api/job-groups for a query: the rows, tagged with the query
\* they answer
JobGroupsBody(params) == [rows |-> GroupIds, params |-> params]

\* body of GET /api/jobs/{groupId}: n jobs of that group
JobsBody(g, n) == {[job_group_id |-> g, job_post_id |-> p] : p \in 1..n}

\* bodies of a 2xx answer of POST /api/sync-jobs for group g
SyncBodies(g) ==
  {[success |-> s, message |-> "synced", rows_affected |-> n, jobs |-> JobsBody(g, n),
    embeddings_updated |-> e] : s \in BOOLEAN, n \in 0..1, e \in EmbeddingsValues}

\* outcomes of a read and of a write: a 2xx answer, a non-2xx answer (of a
\* write: with or without a detail in its body), a rejected fetch
ReadOutcomes == {"ok", "http", "network"}
WriteOutcomes == {"ok", "http_detail", "http_nodetail", "network"}

\* ---------------------------------------------------------------- initial
Init ==
  /\ jobGroupId = <<>> /\ status = "Open" /\ loading = FALSE /\ result = NoResult
  /\ jobGroups = [rows |-> {}, params |-> NoParams]
  /\ jobGroupsLoading = TRUE /\ jobGroupsError = Null
  /\ stats = Null /\ statsLoading = TRUE
  /\ statusFilter = "all" /\ sortBy = "date_created" /\ sortOrder = "desc"
  /\ searchQuery = <<>>
  /\ secretCode = <<>> /\ reindexJobGroupId = <<>> /\ reindexLoading = FALSE
  /\ countries = {} /\ selectedCountry = ""
  /\ modalOpen = FALSE /\ modalJobs = {} /\ modalGroupId = "" /\ modalLoading = FALSE
  /\ mounted = FALSE
  /\ jgNet = {} /\ jgSeq = 0 /\ jgLast = [seq |-> 0, params |-> NoParams]
  /\ statsNet = 0 /\ countriesNet = 0
  /\ modalNet = {} /\ modalSeq = 0 /\ syncNet = {} /\ reindexNet = {}
  /\ notified = <<>>
  /\ ev = [op |-> "construct"]

\* --------------------------------------------------------------- the reads
\* fetchJobGroups() of closure c, up to its await
FetchJobGroups(c) ==
  /\ jobGroupsLoading' = TRUE
  /\ jobGroupsError' = Null
  /\ jgNet' = jgNet \cup {JobGroupsRequest(c, jgSeq)}
  /\ jgSeq' = jgSeq + 1
  /\ jgLast' = JobGroupsRequest(c, jgSeq)
  /\ UNCHANGED jobGroups

\* fetchStats(), up to its await
FetchStats ==
  /\ statsLoading' = TRUE
  /\ statsNet' = statsNet + 1
  /\ UNCHANGED stats

\* room for one more job-groups request, counting the refresh every sync in
\* flight issues when it succeeds
JgBudget(n) == jgSeq + Cardinality(syncNet) + n <= MaxJgReq

\* the two mount effects, in declaration order: the initial fetch, then the
\* filter effect, which also runs after the first render
Mount ==
  /\ ~mounted
  /\ mounted' = TRUE
  /\ jobGroupsLoading' = TRUE
  /\ jobGroupsError' = Null
  /\ jgNet' = jgNet \cup {JobGroupsRequest(Closure, jgSeq), JobGroupsRequest(Closure, jgSeq + 1)}
  /\ jgSeq' = jgSeq + 2
  /\ jgLast' = JobGroupsRequest(Closure, jgSeq + 1)
  /\ FetchStats
  /\ countriesNet' = countriesNet + 1
  /\ notified' = <<>>
  /\ ev' = [op |-> "mount"]
  /\ UNCHANGED <<formVars, jobGroups, filterVars, reindexVars, countries, modalVars,
                 modalNet, modalSeq, syncNet, reindexNet>>

\* continuation of fetchJobGroups that blanks the list on a failure
JobGroupsResponseBlanking(r, outcome) ==
  /\ r \in jgNet
  /\ jgNet' = jgNet \ {r}
  /\ CASE outcome = "ok" ->
            /\ jobGroups' = JobGroupsBody(r.params)
            /\ UNCHANGED jobGroupsError
       [] outcome = "http" ->
            /\ jobGroupsError' = "Failed to fetch job groups"
            /\ UNCHANGED jobGroups
       [] outcome = "network" ->
            /\ jobGroupsError' = NetworkMessage
            /\ jobGroups' = [rows |-> {}, params |-> NoParams]
  /\ jobGroupsLoading' = FALSE
  /\ notified' = <<>>
  /\ ev' = [op |-> "jobGroupsResponse", outcome |-> outcome, seq |-> r.seq]
  /\ UNCHANGED <<formVars, statsVars, filterVars, reindexVars, countries, modalVars,
                 mounted, jgSeq, jgLast, statsNet, countriesNet, modalNet, modalSeq, syncNet,
                 reindexNet>>

\* continuation of fetchJobGroups for request r
JobGroupsResponse(r, outcome) ==
  /\ r \in jgNet
  /\ jgNet' = jgNet \ {r}
  /\ CASE outcome = "ok" ->
            /\ jobGroups' = JobGroupsBody(r.params)
            /\ UNCHANGED jobGroupsError
       [] outcome = "http" ->
            /\ jobGroupsError' = "Failed to fetch job groups"
            /\ UNCHANGED jobGroups
       [] outcome = "network" ->
            /\ jobGroupsError' = NetworkMessage
            /\ UNCHANGED jobGroups
  /\ jobGroupsLoading' = FALSE
  /\ notified' = <<>>
  /\ ev' = [op |-> "jobGroupsResponse", outcome |-> outcome, seq |-> r.seq]
  /\ UNCHANGED <<formVars, statsVars, filterVars, reindexVars, countries, modalVars,
                 mounted, jgSeq, jgLast, statsNet, countriesNet, modalNet, modalSeq, syncNet,
                 reindexNet>>

\* continuation of fetchStats that fetches again after a failure
StatsResponseRetrying(outcome, body) ==
  /\ statsNet > 0
  /\ statsNet' = IF outcome = "ok" THEN statsNet - 1 ELSE statsNet
  /\ stats' = IF outcome = "ok" THEN body ELSE stats
  /\ statsLoading' = FALSE
  /\ notified' = <<>>
  /\ ev' = [op |-> "statsResponse", outcome |-> outcome]
  /\ UNCHANGED <<formVars, jgVars, filterVars, reindexVars, countries, modalVars,
                 mounted, jgNet, jgSeq, jgLast, countriesNet, modalNet, modalSeq, syncNet,
                 reindexNet>>

\* continuation of fetchStats that reports its failure in the job-groups error
StatsResponseSharedError(outcome, body) ==
  /\ statsNet > 0
  /\ statsNet' = statsNet - 1
  /\ stats' = IF outcome = "ok" THEN body ELSE stats
  /\ statsLoading' = FALSE
  /\ notified' = <<>>
  /\ ev' = [op |-> "statsResponse", outcome |-> outcome]
  /\ jobGroupsError' = IF outcome = "ok" THEN jobGroupsError ELSE "Failed to fetch stats"
  /\ UNCHANGED <<formVars, jobGroups, jobGroupsLoading, filterVars, reindexVars, countries,
                 modalVars,
                 mounted, jgNet, jgSeq, jgLast, countriesNet, modalNet, modalSeq, syncNet,
                 reindexNet>>

\* continuation of fetchStats
StatsResponse(outcome, body) ==
  /\ statsNet > 0
  /\ statsNet' = statsNet - 1
  /\ stats' = IF outcome = "ok" THEN body ELSE stats
  /\ statsLoading' = FALSE
  /\ notified' = <<>>
  /\ ev' = [op |-> "statsResponse", outcome |-> outcome]
  /\ UNCHANGED <<formVars, jgVars, filterVars, reindexVars, countries, modalVars,
                 mounted, jgNet, jgSeq, jgLast, countriesNet, modalNet, modalSeq, syncNet,
                 reindexNet>>

\* continuation of fetchCountries
CountriesResponse(outcome) ==
  /\ countriesNet > 0
  /\ countriesNet' = countriesNet - 1
  /\ countries' = IF outcome = "ok" THEN CountryList ELSE countries
  /\ notified' = <<>>
  /\ ev' = [op |-> "countriesResponse", outcome |-> outcome]
  /\ UNCHANGED <<formVars, jgVars, statsVars, filterVars, reindexVars, modalVars,
                 mounted, jgNet, jgSeq, jgLast, statsNet, modalNet, modalSeq, syncNet,
                 reindexNet>>

\* ------------------------------------------------- filter, sort and search
\* the closure of the render that follows a change of statusFilter, sortBy or
\* sortOrder: its filter effect calls that render's fetchJobGroups
EffectClosureStale(sf, sb, so) == Closure

EffectClosure(sf, sb, so) ==
  [Closure EXCEPT !.statusFilter = sf, !.sortBy = sb, !.sortOrder = so]

\* a filter effect that refreshes the stats as well
FilterEffectWithStats(sf, sb, so, op) ==
  /\ mounted
  /\ JgBudget(1)
  /\ statusFilter' = sf /\ sortBy' = sb /\ sortOrder' = so
  /\ FetchJobGroups(EffectClosure(sf, sb, so))
  /\ FetchStats
  /\ notified' = <<>>
  /\ ev' = [op |-> op]
  /\ UNCHANGED <<formVars, searchQuery, reindexVars, countries, modalVars,
                 mounted, countriesNet, modalNet, modalSeq, syncNet,
                 reindexNet>>

\* a change of statusFilter, sortBy or sortOrder re-renders and runs the
\* filter effect of the new render
FilterEffect(sf, sb, so, op) ==
  /\ mounted
  /\ JgBudget(1)
  /\ statusFilter' = sf /\ sortBy' = sb /\ sortOrder' = so
  /\ FetchJobGroups(EffectClosure(sf, sb, so))
  /\ notified' = <<>>
  /\ ev' = [op |-> op]
  /\ UNCHANGED <<formVars, statsVars, searchQuery, reindexVars, countries, modalVars,
                 mounted, statsNet, countriesNet, modalNet, modalSeq, syncNet,
                 reindexNet>>

SetStatusFilter(v) ==
  /\ v # statusFilter
  /\ FilterEffect(v, sortBy, sortOrder, "setStatusFilter")

SetSortBy(v) ==
  /\ v # sortBy
  /\ FilterEffect(statusFilter, v, sortOrder, "setSortBy")

\* a sort-order button that always sorts ascending
toggleSortOrderAscending ==
  FilterEffect(statusFilter, sortBy, "asc", "toggleSortOrder")

\* setSortOrder(sortOrder === "asc" ? "desc" : "asc"), then the filter effect
toggleSortOrder ==
  FilterEffect(statusFilter, sortBy, IF sortOrder = "asc" THEN "desc" ELSE "asc",
               "toggleSortOrder")

\* onChange of the search input: stores the text
SetSearchQuery(s) ==
  /\ mounted
  /\ s # searchQuery
  /\ searchQuery' = s
  /\ notified' = <<>>
  /\ ev' = [op |-> "setSearchQuery"]
  /\ UNCHANGED <<formVars, jgVars, statsVars, statusFilter, sortBy, sortOrder,
                 reindexVars, countries, modalVars, mounted, netVars>>

\* onKeyDown of the search input with the Enter key
SearchEnter ==
  /\ mounted
  /\ JgBudget(1)
  /\ FetchJobGroups(Closure)
  /\ notified' = <<>>
  /\ ev' = [op |-> "searchEnter"]
  /\ UNCHANGED <<formVars, statsVars, filterVars, reindexVars, countries, modalVars,
                 mounted, statsNet, countriesNet, modalNet, modalSeq, syncNet,
                 reindexNet>>

\* a refresh button that reloads the countries too
handleRefreshWithCountries ==
  /\ mounted
  /\ ~jobGroupsLoading
  /\ JgBudget(1)
  /\ FetchJobGroups(Closure)
  /\ FetchStats
  /\ countriesNet' = countriesNet + 1
  /\ notified' = <<>>
  /\ ev' = [op |-> "handleRefresh"]
  /\ UNCHANGED <<formVars, filterVars, reindexVars, countries, modalVars,
                 mounted, modalNet, modalSeq, syncNet, reindexNet>>

\* the refresh button, disabled while jobGroupsLoading
handleRefresh ==
  /\ mounted
  /\ ~jobGroupsLoading
  /\ JgBudget(1)
  /\ FetchJobGroups(Closure)
  /\ FetchStats
  /\ notified' = <<>>
  /\ ev' = [op |-> "handleRefresh"]
  /\ UNCHANGED <<formVars, filterVars, reindexVars, countries, modalVars,
                 mounted, countriesNet, modalNet, modalSeq, syncNet, reindexNet>>

\* ------------------------------------------------------------------- sync
SetJobGroupId(s) ==
  /\ mounted /\ ~loading
  /\ s # jobGroupId
  /\ jobGroupId' = s
  /\ notified' = <<>>
  /\ ev' = [op |-> "setJobGroupId"]
  /\ UNCHANGED <<status, loading, result, selectedCountry, jgVars, statsVars, filterVars,
                 reindexVars, countries, modalVars, mounted, netVars>>

SetStatus(v) ==
  /\ mounted /\ ~loading
  /\ v # status
  /\ status' = v
  /\ notified' = <<>>
  /\ ev' = [op |-> "setStatus"]
  /\ UNCHANGED <<jobGroupId, loading, result, selectedCountry, jgVars, statsVars,
                 filterVars, reindexVars, countries, modalVars, mounted, netVars>>

\* the country Select offers the fetched countries; its clear button shows
\* while a country is selected and sets ""
SetSelectedCountry(c) ==
  /\ mounted /\ ~loading
  /\ c # selectedCountry
  /\ c \in countries \/ (c = "" /\ selectedCountry # "")
  /\ selectedCountry' = c
  /\ notified' = <<>>
  /\ ev' = [op |-> "setSelectedCountry"]
  /\ UNCHANGED <<jobGroupId, status, loading, result, jgVars, statsVars, filterVars,
                 reindexVars, countries, modalVars, mounted, netVars>>

\* the toast of a successful sync of closure status st with body data
SyncSuccessMessageAnyStatus(st, data) ==
  IF data.embeddings_updated # Absent /\ data.embeddings_updated # 0
     /\ data.embeddings_updated > 0
    THEN <<data.message, " - ", ToString(data.rows_affected), " row(s) affected",
           ", ", ToString(data.embeddings_updated), " embedding(s) rebuilt">>
    ELSE <<data.message, " - ", ToString(data.rows_affected), " row(s) affected">>

SyncSuccessMessage(st, data) ==
  IF st = "Open" /\ data.embeddings_updated # Absent /\ data.embeddings_updated # 0
     /\ data.embeddings_updated > 0
    THEN <<data.message, " - ", ToString(data.rows_affected), " row(s) affected",
           ", ", ToString(data.embeddings_updated), " embedding(s) rebuilt">>
    ELSE <<data.message, " - ", ToString(data.rows_affected), " row(s) affected">>

\* setResult(null) of a dispatched sync, prev being the result displayed
ResultOnDispatchKept(prev) == prev

ResultOnDispatch(prev) == NoResult

\* !jobGroupId.trim(): the submitted group id is empty
GroupIdMissingUntrimmed(id) == id = <<>>

GroupIdMissing(id) == Trim(id) = <<>>

\* handleSync that clears the result before it validates
handleSyncClearsFirst ==
  /\ mounted /\ ~loading
  /\ IF GroupIdMissing(jobGroupId)
       THEN /\ notified' = <<ToastError(<<"Please enter a job group ID">>)>>
            /\ ev' = [op |-> "handleSync", dispatched |-> FALSE]
            /\ result' = NoResult
            /\ UNCHANGED <<loading, syncNet>>
       ELSE /\ JgBudget(1)
            /\ loading' = TRUE
            /\ result' = ResultOnDispatch(result)
            /\ syncNet' = syncNet \cup
                 {[closure |-> Closure,
                   body |-> [job_group_id |-> Trim(jobGroupId), status |-> status,
                             country |-> IF selectedCountry = "" THEN Null
                                         ELSE selectedCountry]]}
            /\ notified' = <<>>
            /\ ev' = [op |-> "handleSync", dispatched |-> TRUE]
  /\ UNCHANGED <<jobGroupId, status, selectedCountry, jgVars, statsVars, filterVars,
                 reindexVars, countries, modalVars, mounted, jgNet, jgSeq, jgLast, statsNet,
                 countriesNet, modalNet, modalSeq, reindexNet>>

\* handleSync on a form that stays enabled while loading
handleSyncNeverDisabled ==
  /\ mounted
  /\ IF GroupIdMissing(jobGroupId)
       THEN /\ notified' = <<ToastError(<<"Please enter a job group ID">>)>>
            /\ ev' = [op |-> "handleSync", dispatched |-> FALSE]
            /\ UNCHANGED <<loading, result, syncNet>>
       ELSE /\ JgBudget(1)
            /\ loading' = TRUE
            /\ result' = ResultOnDispatch(result)
            /\ syncNet' = syncNet \cup
                 {[closure |-> Closure,
                   body |-> [job_group_id |-> Trim(jobGroupId), status |-> status,
                             country |-> IF selectedCountry = "" THEN Null
                                         ELSE selectedCountry]]}
            /\ notified' = <<>>
            /\ ev' = [op |-> "handleSync", dispatched |-> TRUE]
  /\ UNCHANGED <<jobGroupId, status, selectedCountry, jgVars, statsVars, filterVars,
                 reindexVars, countries, modalVars, mounted, jgNet, jgSeq, jgLast, statsNet,
                 countriesNet, modalNet, modalSeq, reindexNet>>

\* handleSync up to its await; the form is disabled while loading
handleSync ==
  /\ mounted /\ ~loading
  /\ IF GroupIdMissing(jobGroupId)
       THEN /\ notified' = <<ToastError(<<"Please enter a job group ID">>)>>
            /\ ev' = [op |-> "handleSync", dispatched |-> FALSE]
            /\ UNCHANGED <<loading, result, syncNet>>
       ELSE /\ JgBudget(1)
            /\ loading' = TRUE
            /\ result' = ResultOnDispatch(result)
            /\ syncNet' = syncNet \cup
                 {[closure |-> Closure,
                   body |-> [job_group_id |-> Trim(jobGroupId), status |-> status,
                             country |-> IF selectedCountry = "" THEN Null
                                         ELSE selectedCountry]]}
            /\ notified' = <<>>
            /\ ev' = [op |-> "handleSync", dispatched |-> TRUE]
  /\ UNCHANGED <<jobGroupId, status, selectedCountry, jgVars, statsVars, filterVars,
                 reindexVars, countries, modalVars, mounted, jgNet, jgSeq, jgLast, statsNet,
                 countriesNet, modalNet, modalSeq, reindexNet>>

\* continuation of handleSync that refreshes the list only
SyncResponseListOnly(r, outcome, data) ==
  /\ r \in syncNet
  /\ syncNet' = syncNet \ {r}
  /\ CASE outcome = "ok" ->
            /\ result' = data
            /\ notified' = <<ToastSuccess(SyncSuccessMessage(r.closure.status, data))>>
            /\ FetchJobGroups(r.closure)
            /\ UNCHANGED <<statsVars, statsNet>>
       [] outcome = "http_detail" ->
            /\ notified' = <<ToastError(<<"detail">>)>>
            /\ UNCHANGED <<result, jgVars, statsVars, jgNet, jgSeq, jgLast, statsNet>>
       [] outcome = "http_nodetail" ->
            /\ notified' = <<ToastError(<<"Failed to sync jobs">>)>>
            /\ UNCHANGED <<result, jgVars, statsVars, jgNet, jgSeq, jgLast, statsNet>>
       [] outcome = "network" ->
            /\ notified' = <<ToastError(<<NetworkMessage>>)>>
            /\ UNCHANGED <<result, jgVars, statsVars, jgNet, jgSeq, jgLast, statsNet>>
  /\ loading' = FALSE
  /\ ev' = [op |-> "syncResponse", outcome |-> outcome, request |-> r]
  /\ UNCHANGED <<jobGroupId, status, selectedCountry, filterVars, reindexVars, countries,
                 modalVars, mounted, countriesNet, modalNet, modalSeq, reindexNet>>

\* continuation of handleSync that never reads the detail of a failure body
SyncResponseIgnoresDetail(r, outcome, data) ==
  /\ r \in syncNet
  /\ syncNet' = syncNet \ {r}
  /\ CASE outcome = "ok" ->
            /\ result' = data
            /\ notified' = <<ToastSuccess(SyncSuccessMessage(r.closure.status, data))>>
            /\ FetchJobGroups(r.closure)
            /\ FetchStats
       [] outcome = "http_detail" ->
            /\ notified' = <<ToastError(<<"Failed to sync jobs">>)>>
            /\ UNCHANGED <<result, jgVars, statsVars, jgNet, jgSeq, jgLast, statsNet>>
       [] outcome = "http_nodetail" ->
            /\ notified' = <<ToastError(<<"Failed to sync jobs">>)>>
            /\ UNCHANGED <<result, jgVars, statsVars, jgNet, jgSeq, jgLast, statsNet>>
       [] outcome = "network" ->
            /\ notified' = <<ToastError(<<NetworkMessage>>)>>
            /\ UNCHANGED <<result, jgVars, statsVars, jgNet, jgSeq, jgLast, statsNet>>
  /\ loading' = FALSE
  /\ ev' = [op |-> "syncResponse", outcome |-> outcome, request |-> r]
  /\ UNCHANGED <<jobGroupId, status, selectedCountry, filterVars, reindexVars, countries,
                 modalVars, mounted, countriesNet, modalNet, modalSeq, reindexNet>>

\* continuation of handleSync for request r
SyncResponse(r, outcome, data) ==
  /\ r \in syncNet
  /\ syncNet' = syncNet \ {r}
  /\ CASE outcome = "ok" ->
            /\ result' = data
            /\ notified' = <<ToastSuccess(SyncSuccessMessage(r.closure.status, data))>>
            /\ FetchJobGroups(r.closure)
            /\ FetchStats
       [] outcome = "http_detail" ->
            /\ notified' = <<ToastError(<<"detail">>)>>
            /\ UNCHANGED <<result, jgVars, statsVars, jgNet, jgSeq, jgLast, statsNet>>
       [] outcome = "http_nodetail" ->
            /\ notified' = <<ToastError(<<"Failed to sync jobs">>)>>
            /\ UNCHANGED <<result, jgVars, statsVars, jgNet, jgSeq, jgLast, statsNet>>
       [] outcome = "network" ->
            /\ notified' = <<ToastError(<<NetworkMessage>>)>>
            /\ UNCHANGED <<result, jgVars, statsVars, jgNet, jgSeq, jgLast, statsNet>>
  /\ loading' = FALSE
  /\ ev' = [op |-> "syncResponse", outcome |-> outcome, request |-> r]
  /\ UNCHANGED <<jobGroupId, status, selectedCountry, filterVars, reindexVars, countries,
                 modalVars, mounted, countriesNet, modalNet, modalSeq, reindexNet>>

\* ---------------------------------------------------------------- reindex
SetSecretCode(s) ==
  /\ mounted /\ ~reindexLoading
  /\ s # secretCode
  /\ secretCode' = s
  /\ notified' = <<>>
  /\ ev' = [op |-> "setSecretCode"]
  /\ UNCHANGED <<formVars, jgVars, statsVars, filterVars, reindexJobGroupId,
                 reindexLoading, countries, modalVars, mounted, netVars>>

SetReindexJobGroupId(s) ==
  /\ mounted /\ ~reindexLoading
  /\ s # reindexJobGroupId
  /\ reindexJobGroupId' = s
  /\ notified' = <<>>
  /\ ev' = [op |-> "setReindexJobGroupId"]
  /\ UNCHANGED <<formVars, jgVars, statsVars, filterVars, secretCode, reindexLoading,
                 countries, modalVars, mounted, netVars>>

\* !secretCode.trim(): the submitted secret code is empty
SecretCodeMissingUntrimmed(code) == code = <<>>

SecretCodeMissing(code) == Trim(code) = <<>>

\* handleReindexAll whose button is also disabled while a sync is loading
handleReindexAllSharedFlag ==
  /\ mounted /\ ~reindexLoading /\ ~loading
  /\ IF SecretCodeMissing(secretCode)
       THEN /\ notified' = <<ToastError(<<"Please enter the secret code">>)>>
            /\ ev' = [op |-> "handleReindexAll", dispatched |-> FALSE]
            /\ UNCHANGED <<reindexLoading, reindexNet>>
       ELSE /\ reindexLoading' = TRUE
            /\ reindexNet' = reindexNet \cup
                 {[closure |-> Closure,
                   body |-> [secret_code |-> Trim(secretCode),
                             job_group_id |-> IF Trim(reindexJobGroupId) = <<>>
                                              THEN NullText
                                              ELSE Trim(reindexJobGroupId)]]}
            /\ notified' = <<>>
            /\ ev' = [op |-> "handleReindexAll", dispatched |-> TRUE]
  /\ UNCHANGED <<formVars, jgVars, statsVars, filterVars, secretCode, reindexJobGroupId,
                 countries, modalVars, mounted, jgNet, jgSeq, jgLast, statsNet, countriesNet,
                 modalNet, modalSeq, syncNet>>

\* handleReindexAll up to its await; its button is disabled while reindexLoading
handleReindexAll ==
  /\ mounted /\ ~reindexLoading
  /\ IF SecretCodeMissing(secretCode)
       THEN /\ notified' = <<ToastError(<<"Please enter the secret code">>)>>
            /\ ev' = [op |-> "handleReindexAll", dispatched |-> FALSE]
            /\ UNCHANGED <<reindexLoading, reindexNet>>
       ELSE /\ reindexLoading' = TRUE
            /\ reindexNet' = reindexNet \cup
                 {[closure |-> Closure,
                   body |-> [secret_code |-> Trim(secretCode),
                             job_group_id |-> IF Trim(reindexJobGroupId) = <<>>
                                              THEN NullText
                                              ELSE Trim(reindexJobGroupId)]]}
            /\ notified' = <<>>
            /\ ev' = [op |-> "handleReindexAll", dispatched |-> TRUE]
  /\ UNCHANGED <<formVars, jgVars, statsVars, filterVars, secretCode, reindexJobGroupId,
                 countries, modalVars, mounted, jgNet, jgSeq, jgLast, statsNet, countriesNet,
                 modalNet, modalSeq, syncNet>>

\* continuation of handleReindexAll that leaves the group id typed on success
ReindexResponseKeepsGroupId(r, outcome) ==
  /\ r \in reindexNet
  /\ reindexNet' = reindexNet \ {r}
  /\ CASE outcome = "ok" ->
            /\ notified' = <<ToastSuccess(<<"reindexed">>)>>
            /\ secretCode' = <<>>
            /\ UNCHANGED reindexJobGroupId
       [] outcome = "http_detail" ->
            /\ notified' = <<ToastError(<<"detail">>)>>
            /\ UNCHANGED <<secretCode, reindexJobGroupId>>
       [] outcome = "http_nodetail" ->
            /\ notified' = <<ToastError(<<"Failed to reindex embeddings">>)>>
            /\ UNCHANGED <<secretCode, reindexJobGroupId>>
       [] outcome = "network" ->
            /\ notified' = <<ToastError(<<NetworkMessage>>)>>
            /\ UNCHANGED <<secretCode, reindexJobGroupId>>
  /\ reindexLoading' = FALSE
  /\ ev' = [op |-> "reindexResponse", outcome |-> outcome, request |-> r]
  /\ UNCHANGED <<formVars, jgVars, statsVars, filterVars, countries, modalVars, mounted,
                 jgNet, jgSeq, jgLast, statsNet, countriesNet, modalNet, modalSeq, syncNet>>

\* continuation of handleReindexAll that resets the loading flag on success only
ReindexResponseNoFinally(r, outcome) ==
  /\ r \in reindexNet
  /\ reindexNet' = reindexNet \ {r}
  /\ CASE outcome = "ok" ->
            /\ notified' = <<ToastSuccess(<<"reindexed">>)>>
            /\ secretCode' = <<>>
            /\ reindexJobGroupId' = <<>>
       [] outcome = "http_detail" ->
            /\ notified' = <<ToastError(<<"detail">>)>>
            /\ UNCHANGED <<secretCode, reindexJobGroupId>>
       [] outcome = "http_nodetail" ->
            /\ notified' = <<ToastError(<<"Failed to reindex embeddings">>)>>
            /\ UNCHANGED <<secretCode, reindexJobGroupId>>
       [] outcome = "network" ->
            /\ notified' = <<ToastError(<<NetworkMessage>>)>>
            /\ UNCHANGED <<secretCode, reindexJobGroupId>>
  /\ reindexLoading' = (outcome # "ok")
  /\ ev' = [op |-> "reindexResponse", outcome |-> outcome, request |-> r]
  /\ UNCHANGED <<formVars, jgVars, statsVars, filterVars, countries, modalVars, mounted,
                 jgNet, jgSeq, jgLast, statsNet, countriesNet, modalNet, modalSeq, syncNet>>

\* continuation of handleReindexAll that succeeds without a toast
ReindexResponseSilent(r, outcome) ==
  /\ r \in reindexNet
  /\ reindexNet' = reindexNet \ {r}
  /\ CASE outcome = "ok" ->
            /\ notified' = <<>>
            /\ secretCode' = <<>>
            /\ reindexJobGroupId' = <<>>
       [] outcome = "http_detail" ->
            /\ notified' = <<ToastError(<<"detail">>)>>
            /\ UNCHANGED <<secretCode, reindexJobGroupId>>
       [] outcome = "http_nodetail" ->
            /\ notified' = <<ToastError(<<"Failed to reindex embeddings">>)>>
            /\ UNCHANGED <<secretCode, reindexJobGroupId>>
       [] outcome = "network" ->
            /\ notified' = <<ToastError(<<NetworkMessage>>)>>
            /\ UNCHANGED <<secretCode, reindexJobGroupId>>
  /\ reindexLoading' = FALSE
  /\ ev' = [op |-> "reindexResponse", outcome |-> outcome, request |-> r]
  /\ UNCHANGED <<formVars, jgVars, statsVars, filterVars, countries, modalVars, mounted,
                 jgNet, jgSeq, jgLast, statsNet, countriesNet, modalNet, modalSeq, syncNet>>

\* continuation of handleReindexAll for request r
ReindexResponse(r, outcome) ==
  /\ r \in reindexNet
  /\ reindexNet' = reindexNet \ {r}
  /\ CASE outcome = "ok" ->
            /\ notified' = <<ToastSuccess(<<"reindexed">>)>>
            /\ secretCode' = <<>>
            /\ reindexJobGroupId' = <<>>
       [] outcome = "http_detail" ->
            /\ notified' = <<ToastError(<<"detail">>)>>
            /\ UNCHANGED <<secretCode, reindexJobGroupId>>
       [] outcome = "http_nodetail" ->
            /\ notified' = <<ToastError(<<"Failed to reindex embeddings">>)>>
            /\ UNCHANGED <<secretCode, reindexJobGroupId>>
       [] outcome = "network" ->
            /\ notified' = <<ToastError(<<NetworkMessage>>)>>
            /\ UNCHANGED <<secretCode, reindexJobGroupId>>
  /\ reindexLoading' = FALSE
  /\ ev' = [op |-> "reindexResponse", outcome |-> outcome, request |-> r]
  /\ UNCHANGED <<formVars, jgVars, statsVars, filterVars, countries, modalVars, mounted,
                 jgNet, jgSeq, jgLast, statsNet, countriesNet, modalNet, modalSeq, syncNet>>

\* ------------------------------------------------------------------ modal
\* the job-count button of a displayed row; the rows show when the list is
\* not loading, and the open dialog covers them
openJobsModal(g) ==
  /\ mounted
  /\ ~jobGroupsLoading /\ g \in jobGroups.rows
  /\ ~modalOpen
  /\ modalSeq < MaxModalReq
  /\ modalOpen' = TRUE
  /\ modalGroupId' = g
  /\ modalLoading' = TRUE
  /\ modalJobs' = {}
  /\ modalNet' = modalNet \cup {[seq |-> modalSeq + 1, groupId |-> g]}
  /\ modalSeq' = modalSeq + 1
  /\ notified' = <<>>
  /\ ev' = [op |-> "openJobsModal", groupId |-> g]
  /\ UNCHANGED <<formVars, jgVars, statsVars, filterVars, reindexVars, countries,
                 mounted, jgNet, jgSeq, jgLast, statsNet, countriesNet, syncNet, reindexNet>>

\* onOpenChange of the dialog: the user dismisses it
CloseModal ==
  /\ modalOpen
  /\ modalOpen' = FALSE
  /\ notified' = <<>>
  /\ ev' = [op |-> "closeModal"]
  /\ UNCHANGED <<formVars, jgVars, statsVars, filterVars, reindexVars, countries,
                 modalJobs, modalGroupId, modalLoading, mounted, netVars>>

\* continuation of openJobsModal that only logs a failure
ModalResponseLogOnly(r, outcome, n) ==
  /\ r \in modalNet
  /\ modalNet' = modalNet \ {r}
  /\ CASE outcome = "ok" ->
            /\ modalJobs' = JobsBody(r.groupId, n)
            /\ notified' = <<>>
       [] outcome = "http" ->
            /\ notified' = <<>>
            /\ UNCHANGED modalJobs
       [] outcome = "network" ->
            /\ notified' = <<>>
            /\ UNCHANGED modalJobs
  /\ modalLoading' = FALSE
  /\ ev' = [op |-> "modalResponse", outcome |-> outcome, seq |-> r.seq]
  /\ UNCHANGED <<formVars, jgVars, statsVars, filterVars, reindexVars, countries,
                 modalOpen, modalGroupId, mounted, jgNet, jgSeq, jgLast, statsNet, countriesNet,
                 modalSeq, syncNet, reindexNet>>

\* continuation of openJobsModal that ends the loading on success only
ModalResponseNoFinally(r, outcome, n) ==
  /\ r \in modalNet
  /\ modalNet' = modalNet \ {r}
  /\ CASE outcome = "ok" ->
            /\ modalJobs' = JobsBody(r.groupId, n)
            /\ notified' = <<>>
       [] outcome = "http" ->
            /\ notified' = <<ToastError(<<"Failed to fetch jobs">>)>>
            /\ UNCHANGED modalJobs
       [] outcome = "network" ->
            /\ notified' = <<ToastError(<<NetworkMessage>>)>>
            /\ UNCHANGED modalJobs
  /\ modalLoading' = IF outcome = "ok" THEN FALSE ELSE modalLoading
  /\ ev' = [op |-> "modalResponse", outcome |-> outcome, seq |-> r.seq]
  /\ UNCHANGED <<formVars, jgVars, statsVars, filterVars, reindexVars, countries,
                 modalOpen, modalGroupId, mounted, jgNet, jgSeq, jgLast, statsNet, countriesNet,
                 modalSeq, syncNet, reindexNet>>

\* continuation of openJobsModal for request r; a 2xx body holds n jobs
ModalResponse(r, outcome, n) ==
  /\ r \in modalNet
  /\ modalNet' = modalNet \ {r}
  /\ CASE outcome = "ok" ->
            /\ modalJobs' = JobsBody(r.groupId, n)
            /\ notified' = <<>>
       [] outcome = "http" ->
            /\ notified' = <<ToastError(<<"Failed to fetch jobs">>)>>
            /\ UNCHANGED modalJobs
       [] outcome = "network" ->
            /\ notified' = <<ToastError(<<NetworkMessage>>)>>
            /\ UNCHANGED modalJobs
  /\ modalLoading' = FALSE
  /\ ev' = [op |-> "modalResponse", outcome |-> outcome, seq |-> r.seq]
  /\ UNCHANGED <<formVars, jgVars, statsVars, filterVars, reindexVars, countries,
                 modalOpen, modalGroupId, mounted, jgNet, jgSeq, jgLast, statsNet, countriesNet,
                 modalSeq, syncNet, reindexNet>>

\* ---------------------------------------------------------- specifications
ReadResponses ==
  \/ \E r \in jgNet, o \in ReadOutcomes : JobGroupsResponse(r, o)
  \/ \E o \in ReadOutcomes, b \in StatsBodies : StatsResponse(o, b)
  \/ \E o \in ReadOutcomes : CountriesResponse(o)

FilterIntents ==
  \/ \E v \in {"all", "Open", "Close"} : SetStatusFilter(v)
  \/ \E v \in {"date_created", "status"} : SetSortBy(v)
  \/ toggleSortOrder

SearchIntents ==
  \/ \E s \in Strings : SetSearchQuery(s)
  \/ SearchEnter

SyncSteps ==
  \/ \E s \in Strings : SetJobGroupId(s)
  \/ \E v \in {"Open", "Close"} : SetStatus(v)
  \/ \E c \in CountryList \cup {""} : SetSelectedCountry(c)
  \/ handleSync
  \/ \E r \in syncNet, o \in WriteOutcomes :
        \E d \in SyncBodies(r.body.job_group_id) : SyncResponse(r, o, d)

ReindexSteps ==
  \/ \E s \in Strings : SetSecretCode(s)
  \/ \E s \in Strings : SetReindexJobGroupId(s)
  \/ handleReindexAll
  \/ \E r \in reindexNet, o \in WriteOutcomes : ReindexResponse(r, o)

ModalSteps ==
  \/ \E g \in GroupIds : openJobsModal(g)
  \/ CloseModal
  \/ \E r \in modalNet, o \in ReadOutcomes, n \in 0..1 : ModalResponse(r, o, n)

\* the whole page
Next ==
  \/ Mount \/ ReadResponses
  \/ FilterIntents \/ SearchIntents \/ handleRefresh
  \/ SyncSteps \/ ReindexSteps \/ ModalSteps

Spec == Init /\ [][Next]_vars

\* the continuations of the three kinds of request a user intent waits for
JobGroupsResponses == \E r \in jgNet, o \in ReadOutcomes : JobGroupsResponse(r, o)

CountriesResponses == \E o \in ReadOutcomes : CountriesResponse(o)

\* the page with a user who works the job-groups list
NextList == Mount \/ JobGroupsResponses \/ FilterIntents \/ SearchIntents \/ handleRefresh

SpecList == Init /\ [][NextList]_vars

\* the page with a user who changes the filters and the search text
NextFilter == Mount \/ FilterIntents \/ SearchIntents

SpecFilter == Init /\ [][NextFilter]_vars

\* the page with a user who works the sync form
NextForm == Mount \/ CountriesResponses \/ SyncSteps

SpecForm == Init /\ [][NextForm]_vars

\* the page with a user who works the sync form and the list filters
NextSync == Mount \/ CountriesResponses \/ SyncSteps \/ FilterIntents

SpecSync == Init /\ [][NextSync]_vars

\* the page with a user who works the reindex panel
NextReindex == Mount \/ JobGroupsResponses \/ ReindexSteps

SpecReindex == Init /\ [][NextReindex]_vars

\* the page with a user who opens and closes the jobs modal
NextModal == Mount \/ JobGroupsResponses \/ ModalSteps

SpecModal == Init /\ [][NextModal]_vars

\* the commands alone, every dispatched request being answered in the end
SyncResponses ==
  \E r \in syncNet, o \in WriteOutcomes :
    \E d \in SyncBodies(r.body.job_group_id) : SyncResponse(r, o, d)

ReindexResponses == \E r \in reindexNet, o \in WriteOutcomes : ReindexResponse(r, o)

\* the texts typed into the two required inputs: none, blank, a text
RequiredTexts == {<<>>, <<" ">>, <<"a">>}

NextCmd ==
  \/ Mount
  \/ \E s \in RequiredTexts : SetJobGroupId(s)
  \/ handleSync
  \/ SyncResponses
  \/ \E s \in RequiredTexts : SetSecretCode(s)
  \/ handleReindexAll
  \/ ReindexResponses

FairSpecCmd ==
  Init /\ [][NextCmd]_vars /\ WF_vars(SyncResponses) /\ WF_vars(ReindexResponses)

\* no request of any kind awaits its response
Settled ==
  /\ jgNet = {} /\ statsNet = 0 /\ countriesNet = 0
  /\ modalNet = {} /\ syncNet = {} /\ reindexNet = {}

\* every kind of intent, by a user who types one text into each input, waits
\* for the page to settle before the next intent and leaves the dialog open;
\* every request is answered with any outcome
TourIntents ==
  \/ SetStatusFilter("Open") \/ SetSortBy("status") \/ toggleSortOrder
  \/ SetSearchQuery(<<"a">>) \/ SearchEnter
  \/ handleRefresh
  \/ SetJobGroupId(<<"a">>) \/ handleSync
  \/ SetSecretCode(<<"a">>) \/ handleReindexAll
  \/ openJobsModal("g1")

TourResponses ==
  \/ JobGroupsResponses
  \/ \E o \in ReadOutcomes : StatsResponse(o, "s1")
  \/ CountriesResponses
  \/ \E r \in syncNet, o \in WriteOutcomes :
        SyncResponse(r, o, [success |-> TRUE, message |-> "synced", rows_affected |-> 1,
                            jobs |-> JobsBody(r.body.job_group_id, 1),
                            embeddings_updated |-> Absent])
  \/ ReindexResponses
  \/ \E r \in modalNet, o \in ReadOutcomes : ModalResponse(r, o, 1)

NextTour == Mount \/ (Settled /\ TourIntents) \/ TourResponses

SpecTour == Init /\ [][NextTour]_vars

\* the page with a user who changes the filters while the three list
\* resources load
NextFilterReads == Mount \/ ReadResponses \/ FilterIntents

SpecFilterReads == Init /\ [][NextFilterReads]_vars

\* the page with a user who opens the jobs modal while the three list
\* resources load
NextReads == Mount \/ ReadResponses \/ ModalSteps

SpecReads == Init /\ [][NextReads]_vars

\* ------------------------------------------------------------- properties
\* requests awaiting a response, of every kind
Outstanding == <<jgNet, statsNet, countriesNet, modalNet, syncNet, reindexNet>>

\* the toast message carries the embeddings clause
HasEmbeddingsClause(msg) ==
  \E i \in 1..Len(msg) : msg[i] = " embedding(s) rebuilt"

\* C1: once every job-groups response has arrived, none of them a failure
\* since the last request was issued, the displayed list is the response to
\* the request issued last
C1_LastIssuedRequestWins ==
  (mounted /\ jgNet = {} /\ jobGroupsError = Null)
    => jobGroups = JobGroupsBody(jgLast.params)

\* C2: a non-empty modal job list holds the jobs of the group shown as the
\* modal title
C2_ModalJobsMatchTitle ==
  \A j \in modalJobs : j.job_group_id = modalGroupId

\* C3: every job-groups request is built from the filter, sort and search
\* values that are current when it is issued
C3_ReadsUseCurrentParams ==
  [][\A r \in jgNet' \ jgNet :
       r.params = JobGroupsParams(statusFilter', sortBy', sortOrder', searchQuery')]_vars

C5_EmptyGroupIdIsRejected ==
  [][(ev'.op = "handleSync" /\ vars' # vars /\ Trim(jobGroupId) = <<>>)
       => /\ Outstanding' = Outstanding
          /\ notified' = <<ToastError(<<"Please enter a job group ID">>)>>]_vars

\* C5 witness: a white-space-only group id was just rejected with status
\* Close and a country selected
C5_Witness ==
  /\ ev.op = "handleSync" /\ ~ev.dispatched
  /\ jobGroupId # <<>> /\ Trim(jobGroupId) = <<>>
  /\ status = "Close" /\ selectedCountry # ""
  /\ syncNet = {}

\* C6: a reindex submitted with a secret code that is empty after trimming
\* issues no request, whatever the group id is
C6_EmptySecretCodeIsRejected ==
  [][(ev'.op = "handleReindexAll" /\ vars' # vars /\ Trim(secretCode) = <<>>)
       => Outstanding' = Outstanding]_vars

\* C6 witness: a white-space-only secret code was just rejected with a group
\* id typed
C6_Witness ==
  /\ ev.op = "handleReindexAll" /\ ~ev.dispatched
  /\ secretCode # <<>> /\ Trim(secretCode) = <<>>
  /\ Trim(reindexJobGroupId) # <<>>
  /\ reindexNet = {}

\* C7: right after a successful reindex both inputs are empty; right after a
\* failed reindex both inputs are as they were when it was submitted
C7_ReindexInputs ==
  ev.op = "reindexResponse" =>
    IF ev.outcome = "ok"
      THEN secretCode = <<>> /\ reindexJobGroupId = <<>>
      ELSE /\ secretCode = ev.request.closure.secretCode
           /\ reindexJobGroupId = ev.request.closure.reindexJobGroupId

\* C7 witness: a reindex submitted with both inputs typed has just succeeded
C7_Witness ==
  /\ ev.op = "reindexResponse" /\ ev.outcome = "ok"
  /\ ev.request.closure.secretCode # <<>>
  /\ ev.request.closure.reindexJobGroupId # <<>>
  /\ secretCode = <<>> /\ reindexJobGroupId = <<>>

\* C8 as claimed: the toast of a successful sync carries the embeddings count
\* exactly when the body's embeddings_updated is present and positive
C8_EmbeddingsClauseAnyStatus ==
  (ev.op = "syncResponse" /\ ev.outcome = "ok") =>
    (HasEmbeddingsClause(notified[1].message)
       <=> (result.embeddings_updated # Absent /\ result.embeddings_updated > 0))

\* C8 amended: the toast of a successful sync carries the embeddings count
\* exactly when the submitted status is Open and the body's
\* embeddings_updated is present and positive
C8_EmbeddingsClauseWhenOpen ==
  (ev.op = "syncResponse" /\ ev.outcome = "ok") =>
    /\ Len(notified) = 1 /\ notified[1].severity = "success"
    /\ HasEmbeddingsClause(notified[1].message)
         <=> /\ ev.request.body.status = "Open"
             /\ result.embeddings_updated # Absent /\ result.embeddings_updated > 0
    /\ HasEmbeddingsClause(notified[1].message)
         => \E i \in 1..Len(notified[1].message) :
              notified[1].message[i] = ToString(result.embeddings_updated)

\* C8 witness: a sync submitted with status Close has just succeeded with a
\* positive embeddings_updated
C8_Witness ==
  /\ ev.op = "syncResponse" /\ ev.outcome = "ok"
  /\ ev.request.body.status = "Close"
  /\ result.embeddings_updated > 0
  /\ ~HasEmbeddingsClause(notified[1].message)

C10_CommandsReturnToIdle ==
  /\ loading ~> ~loading
  /\ reindexLoading ~> ~reindexLoading

\* C10 witness: a failed sync has returned the form to idle while a reindex
\* is still in flight
C10_Witness ==
  /\ ev.op = "syncResponse" /\ ev.outcome = "network"
  /\ ~loading /\ syncNet = {}
  /\ reindexLoading /\ reindexNet # {}

\* the last step belongs to the sync command, or to the reindex command
SyncStep == ev'.op \in {"handleSync", "syncResponse"} /\ vars' # vars

ReindexStep == ev'.op \in {"handleReindexAll", "reindexResponse"} /\ vars' # vars

\* C11: a sync in flight does not keep a reindex from being dispatched, nor a
\* reindex in flight a sync; no step of one command changes the loading flag,
\* the inputs, the stored result or the request in flight of the other
C11_SyncAndReindexIndependent ==
  /\ []((mounted /\ loading /\ ~reindexLoading /\ Trim(secretCode) # <<>>)
          => ENABLED (handleReindexAll /\ reindexLoading'))
  /\ []((mounted /\ reindexLoading /\ ~loading /\ Trim(jobGroupId) # <<>> /\ JgBudget(1))
          => ENABLED (handleSync /\ loading'))
  /\ [][SyncStep => UNCHANGED <<reindexVars, reindexNet>>]_vars
  /\ [][ReindexStep => UNCHANGED <<formVars, syncNet>>]_vars

\* C11 witness: a reindex was just dispatched while a sync is in flight
C11_Witness ==
  /\ ev.op = "handleReindexAll" /\ ev.dispatched
  /\ loading /\ syncNet # {}
  /\ reindexLoading /\ reindexNet # {}

\* C12: a successful sync response stores the returned body as the result and
\* issues exactly one job-groups request and exactly one stats request, and
\* no countries request
C12_SuccessfulSyncRefreshes ==
  [][(ev'.op = "syncResponse" /\ ev'.outcome = "ok" /\ vars' # vars)
       => /\ result' \in SyncBodies(ev'.request.body.job_group_id)
          /\ result' # NoResult
          /\ jgSeq' = jgSeq + 1
          /\ Cardinality(jgNet' \ jgNet) = 1 /\ jgNet \subseteq jgNet'
          /\ statsNet' = statsNet + 1
          /\ countriesNet' = countriesNet]_vars

\* C12 witness: a sync just succeeded; its result is stored and the two
\* refreshes are in flight
C12_Witness ==
  /\ ev.op = "syncResponse" /\ ev.outcome = "ok"
  /\ result # NoResult
  /\ jgLast \in jgNet /\ statsNet > 0

\* C13: mounting the page issues exactly one job-groups request, one stats
\* request and one countries request
C13_MountReadsEachOnce ==
  [][(~mounted /\ mounted')
       => /\ jgSeq' = jgSeq + 1 /\ Cardinality(jgNet' \ jgNet) = 1
          /\ statsNet' = statsNet + 1
          /\ countriesNet' = countriesNet + 1]_vars

\* C14: the countries request is issued once, by the mount, and no later step
\* of any kind issues another one
C14_CountriesReadOnceAtStartup ==
  /\ [](mounted => countriesNet \in {0, 1})
  /\ [][mounted => mounted']_vars
  /\ [][countriesNet' > countriesNet
          => (~mounted /\ mounted' /\ countriesNet' = countriesNet + 1)]_vars

\* C14 witness: the countries arrived, a sync stored its result, and the user
\* has just opened the modal: no countries request is in flight
C14_Witness ==
  /\ ev.op = "openJobsModal"
  /\ result # NoResult /\ sortOrder = "asc"
  /\ countries # {} /\ countriesNet = 0

\* C15: a step that changes the status filter, the sort key or the sort
\* order issues exactly one job-groups request, no stats request and no
\* countries request, and leaves the stats, the stats loading flag and the
\* countries unchanged
C15_FilterChangeReadsJobGroupsOnly ==
  [][(statusFilter' # statusFilter \/ sortBy' # sortBy \/ sortOrder' # sortOrder)
       => /\ jgSeq' = jgSeq + 1
          /\ Cardinality(jgNet' \ jgNet) = 1 /\ jgNet \subseteq jgNet'
          /\ statsNet' = statsNet /\ countriesNet' = countriesNet
          /\ stats' = stats /\ statsLoading' = statsLoading
          /\ countries' = countries]_vars

\* C15 witness: the sort order was just toggled on a page that shows stats
\* and countries
C15_Witness ==
  /\ ev.op = "toggleSortOrder" /\ jgLast \in jgNet
  /\ stats # Null /\ ~statsLoading /\ statsNet = 0
  /\ countries # {} /\ countriesNet = 0

\* C16: the failure of a job-groups request that a newer job-groups request
\* has superseded leaves the job-groups error as it was
C16_StaleFailureNotReported ==
  [][(/\ jgNet' # jgNet /\ jgNet' \subseteq jgNet
      /\ ev'.op = "jobGroupsResponse" /\ ev'.outcome # "ok"
      /\ ev'.seq < jgSeq)
       => jobGroupsError' = jobGroupsError]_vars

\* C17: a failed job-groups response keeps the displayed list, sets the
\* job-groups error to the message of the failure, and ends the loading
C17_FailedReadKeepsList ==
  [][(/\ jgNet' # jgNet /\ jgNet' \subseteq jgNet
      /\ ev'.op = "jobGroupsResponse" /\ ev'.outcome # "ok")
       => /\ jobGroups' = jobGroups
          /\ jobGroupsError' = IF ev'.outcome = "http" THEN "Failed to fetch job groups"
                                                      ELSE NetworkMessage
          /\ jobGroupsError' # Null
          /\ ~jobGroupsLoading']_vars

\* C17 witness: a rejected fetch has just failed on a page that shows rows
C17_Witness ==
  /\ ev.op = "jobGroupsResponse" /\ ev.outcome = "network"
  /\ jobGroups.rows # {}
  /\ jobGroupsError = NetworkMessage /\ ~jobGroupsLoading

\* the resource a read continuation belongs to, and the error state the view
\* holds for each resource: the job-groups list alone has one
ResourceOf ==
  [jobGroupsResponse |-> "jobGroups", statsResponse |-> "stats",
   countriesResponse |-> "countries", modalResponse |-> "detail"]

ErrorOf ==
  [jobGroups |-> jobGroupsError, stats |-> Null, countries |-> Null, detail |-> Null]

\* the step is the arrival of a failed read
FailedRead ==
  /\ ev'.op \in DOMAIN ResourceOf
  /\ ev'.outcome # "ok"
  /\ Outstanding' # Outstanding

Pending ==
  Cardinality(jgNet) + statsNet + countriesNet + Cardinality(modalNet)
    + Cardinality(syncNet) + Cardinality(reindexNet)

\* the continuations, and the steps that may issue a request
ResponseOps ==
  {"jobGroupsResponse", "statsResponse", "countriesResponse", "modalResponse",
   "syncResponse", "reindexResponse"}

TriggerOps ==
  {"mount", "setStatusFilter", "setSortBy", "toggleSortOrder", "searchEnter",
   "handleRefresh", "openJobsModal", "handleSync", "handleReindexAll"}

\* C19: the arrival of a failure response only removes the request it
\* answers and issues none; a step that raises the number of requests in
\* flight, or that issues a numbered request, is one of the triggers or the
\* arrival of a successful sync response
C19_NoAutomaticRetry ==
  /\ [][(ev'.op \in ResponseOps /\ ev'.outcome # "ok")
          => /\ Pending' = Pending - 1
             /\ jgSeq' = jgSeq /\ modalSeq' = modalSeq
             /\ jgNet' \subseteq jgNet /\ modalNet' \subseteq modalNet
             /\ syncNet' \subseteq syncNet /\ reindexNet' \subseteq reindexNet
             /\ statsNet' <= statsNet /\ countriesNet' <= countriesNet]_vars
  /\ [][(Pending' > Pending \/ jgSeq' # jgSeq \/ modalSeq' # modalSeq)
          => \/ ev'.op \in TriggerOps
             \/ (ev'.op = "syncResponse" /\ ev'.outcome = "ok")]_vars

\* C19 witness: a sync has just failed on a rejected fetch and nothing is in
\* flight
C19_Witness ==
  /\ ev.op = "syncResponse" /\ ev.outcome = "network"
  /\ Settled /\ ~loading

\* result && result.jobs.length > 0: the synced-jobs table is rendered
SyncedJobsShown == result # NoResult /\ result.jobs # {}

\* C20: the synced-jobs table is rendered only while the stored result has
\* success = true and a non-empty job list
C20_ShownOnlyOnSuccess ==
  SyncedJobsShown => (result.success /\ result.jobs # {})

\* C21: the arrival of a failed sync response raises exactly one
\* notification, an error, whose text is the detail of the failure body when
\* it has one, the fixed text "Failed to sync jobs" when it has none, and the
\* message of the rejection when the fetch was rejected
C21_FailedSyncNotifiesOnce ==
  [][(ev'.op = "syncResponse" /\ ev'.outcome # "ok")
       => /\ Len(notified') = 1
          /\ notified'[1].severity = "error"
          /\ notified'[1].message =
               CASE ev'.outcome = "http_detail" -> <<"detail">>
                 [] ev'.outcome = "http_nodetail" -> <<"Failed to sync jobs">>
                 [] ev'.outcome = "network" -> <<NetworkMessage>>]_vars

\* C21 witness: a sync has just failed with a detail in its body, shown as
\* the one error toast
C21_Witness ==
  /\ ev.op = "syncResponse" /\ ev.outcome = "http_detail"
  /\ notified = <<ToastError(<<"detail">>)>>
  /\ ~loading

\* C22: the sort order is one of two values and every toggle replaces it by
\* the other one, so that two toggles restore it; every toggle issues one
\* new job-groups request, built with the order the toggle produced
C22_ToggleTwiceRestores ==
  /\ [](sortOrder \in {"asc", "desc"})
  /\ [][ev'.op = "toggleSortOrder"
          => /\ sortOrder' # sortOrder
             /\ jgSeq' = jgSeq + 1
             /\ jgNet \subseteq jgNet' /\ jgNet' \ jgNet = {jgLast'}
             /\ jgLast'.seq = jgSeq'
             /\ jgLast'.params.sort_order = sortOrder']_vars

\* C22 witness: the second of two toggles after the mount: the order is the
\* initial one again, and the requests of the two toggles are both in
\* flight, the first one ascending and the second one descending
C22_Witness ==
  /\ ev.op = "toggleSortOrder" /\ sortOrder = "desc" /\ jgSeq = 4
  /\ \E r3, r4 \in jgNet :
        /\ r3.seq = 3 /\ r3.params.sort_order = "asc"
        /\ r4.seq = 4 /\ r4.params.sort_order = "desc"

\* the view state: everything the page holds except the notifications
ViewState ==
  <<formVars, jgVars, statsVars, filterVars, reindexVars, countries, modalVars>>

C24_SuccessClearsError ==
  [][(ev'.op = "jobGroupsResponse" /\ ev'.outcome = "ok") => jobGroupsError' = Null]_vars

\* the parameters a job-groups query may carry
ParamNames == {"status", "sort_by", "sort_order", "search"}

C26_FailuresAreLocal ==
  /\ [][FailedRead =>
          CASE ev'.op = "jobGroupsResponse" ->
                 UNCHANGED <<statsVars, countries, modalVars, statsNet, countriesNet, modalNet>>
            [] ev'.op = "statsResponse" ->
                 UNCHANGED <<jgVars, countries, modalVars, jgNet, countriesNet, modalNet>>
            [] ev'.op = "countriesResponse" ->
                 UNCHANGED <<jgVars, statsVars, modalVars, jgNet, statsNet, modalNet>>
            [] ev'.op = "modalResponse" ->
                 UNCHANGED <<jgVars, statsVars, countries, jgNet, statsNet, countriesNet>>]_vars
  /\ [](\A r \in jgNet :
          ENABLED (JobGroupsResponse(r, "ok") /\ jobGroups' = JobGroupsBody(r.params)))
  /\ [](statsNet > 0 => ENABLED (StatsResponse("ok", "s1") /\ stats' = "s1"))
  /\ [](countriesNet > 0 => ENABLED (CountriesResponse("ok") /\ countries' = CountryList))
  /\ [](\A r \in modalNet :
          ENABLED (ModalResponse(r, "ok", 1) /\ modalJobs' = JobsBody(r.groupId, 1)))
  /\ [](\A g \in GroupIds :
          (mounted /\ ~jobGroupsLoading /\ g \in jobGroups.rows /\ ~modalOpen
             /\ modalSeq < MaxModalReq)
            => ENABLED (openJobsModal(g) /\ modalNet' # modalNet))

\* C26 witness: the stats read has just failed on a page that shows job
\* groups without an error, countries and the jobs of a group
C26_Witness ==
  /\ ev.op = "statsResponse" /\ ev.outcome = "http"
  /\ jobGroups.rows # {} /\ jobGroupsError = Null /\ ~jobGroupsLoading
  /\ countries # {}
  /\ modalOpen /\ modalJobs # {} /\ ~modalLoading

\* C27: each command has at most one request outstanding, and has one
\* exactly while its loading flag is true; while the flag is true the
\* command cannot be submitted, and every dispatch happens with the flag
\* false and no request of the command outstanding
C27_OneRequestPerCommand ==
  /\ [](Cardinality(syncNet) <= 1 /\ Cardinality(reindexNet) <= 1)
  /\ []((loading <=> syncNet # {}) /\ (reindexLoading <=> reindexNet # {}))
  /\ [](loading => ~ENABLED handleSync)
  /\ [](reindexLoading => ~ENABLED handleReindexAll)
  /\ [][(ev'.op = "handleSync" /\ ev'.dispatched) => (~loading /\ syncNet = {})]_vars
  /\ [][(ev'.op = "handleReindexAll" /\ ev'.dispatched)
          => (~reindexLoading /\ reindexNet = {})]_vars

\* C27 witness: a sync was just dispatched while a reindex is in flight: one
\* request of each command is outstanding
C27_Witness ==
  /\ ev.op = "handleSync" /\ ev.dispatched
  /\ loading /\ Cardinality(syncNet) = 1
  /\ reindexLoading /\ Cardinality(reindexNet) = 1

\* C28: the job-groups loading flag is true in every state in which a
\* job-groups request is outstanding
C28_LoadingWhileOutstanding ==
  jgNet # {} => jobGroupsLoading

C30_OneNotificationPerSubmission ==
  /\ [][(ev'.op \in {"handleSync", "handleReindexAll"})
          => IF ev'.dispatched
               THEN notified' = <<>>
               ELSE Len(notified') = 1 /\ notified'[1].severity = "error"]_vars
  /\ [][(ev'.op \in {"syncResponse", "reindexResponse"})
          => /\ Len(notified') = 1
             /\ notified'[1].severity = IF ev'.outcome = "ok" THEN "success" ELSE "error"]_vars
  /\ loading ~> (ev.op = "syncResponse" /\ Len(notified) = 1)
  /\ reindexLoading ~> (ev.op = "reindexResponse" /\ Len(notified) = 1)

\* C30 witness: a reindex has just succeeded with its one success toast
C30_Witness ==
  /\ ev.op = "reindexResponse" /\ ev.outcome = "ok"
  /\ notified = <<ToastSuccess(<<"reindexed">>)>>
  /\ ~reindexLoading /\ reindexNet = {}

====
